---- MODULE Spec2Model ----
(***************************************************************************)
(* Rex: self-extracting bundle generator and runtime.                      *)
(*                                                                         *)
(* Files are sequences of bytes (0..255).  Strings that end up in a file   *)
(* (the target basename) are sequences of bytes as well; command-line      *)
(* arguments and diagnostics are TLA+ strings.  argv is modelled without   *)
(* argv[0]: it is std::env::args().skip(1).                                *)
(***************************************************************************)
EXTENDS Integers, Sequences, FiniteSets, TLC

(***************************************************************************)
(* Program constants                                                       *)
(***************************************************************************)
\* b"REX_BUNDLE"
MAGIC_MARKER == <<82, 69, 88, 95, 66, 85, 78, 68, 76, 69>>

\* size_of::<BundleMetadata>(): u64 + u32 + u32
BundleMetadataSize == 16

FIXED_METADATA_SIZE == BundleMetadataSize + Len(MAGIC_MARKER)

MAX_NAME_LEN == 256

(***************************************************************************)
(* Bounds of the model                                                     *)
(***************************************************************************)
\* length of the tool's own executable image
HostLen == 3
\* length of the long filler payload (pushes everything except the trailer
\* out of the search window)
FillLen == 290
\* child exit codes range over 0..MaxChildCode
MaxChildCode == 2

(***************************************************************************)
(* Little-endian integers.  u64 and u32 values read from a file are kept   *)
(* as their byte sequences, so that the full width is there; values that   *)
(* are known to be small (lengths of files of the model) are integers.     *)
(***************************************************************************)
RECURSIVE to_le_bytes(_, _)
to_le_bytes(n, k) ==
    IF k = 0 THEN <<>> ELSE <<n % 256>> \o to_le_bytes(n \div 256, k - 1)

\* the value is below 2^16: every byte above the second is zero
IsSmall(b) == \A i \in 3..Len(b) : b[i] = 0

\* from_le_bytes, for a small value
SmallValue(b) == b[1] + 256 * b[2]

IsZero(b) == \A i \in 1..Len(b) : b[i] = 0

\* a + b on u64 byte sequences: the 8 result bytes, then the carry out
RECURSIVE AddWithCarry(_, _, _, _)
AddWithCarry(a, b, i, c) ==
    IF i > Len(a) THEN <<c>>
    ELSE LET s == a[i] + b[i] + c
         IN  <<s % 256>> \o AddWithCarry(a, b, i + 1, s \div 256)

\* UTF-8: the length of the sequence a lead byte opens (0: not a lead byte)
LeadLen(b) ==
    IF b < 128 THEN 1
    ELSE IF b >= 194 /\ b <= 223 THEN 2
    ELSE IF b >= 224 /\ b <= 239 THEN 3
    ELSE IF b >= 240 /\ b <= 244 THEN 4
    ELSE 0

IsCont(b) == b >= 128 /\ b <= 191

\* the range of the byte after the lead (no overlong forms, no surrogates,
\* nothing above U+10FFFF)
SecondOk(lead, second) ==
    /\ lead = 224 => second >= 160
    /\ lead = 237 => second <= 159
    /\ lead = 240 => second >= 144
    /\ lead = 244 => second <= 143

\* String::from_utf8(bs).is_ok(): every lead byte is followed by its
\* continuation bytes, and every continuation byte belongs to a lead byte
from_utf8_ok(bs) ==
    LET n == Len(bs)
    IN  \A i \in 1..n :
            IF IsCont(bs[i]) THEN
                \E k \in 1..3 :
                    /\ i - k >= 1
                    /\ LeadLen(bs[i - k]) > k
                    /\ \A j \in (i - k + 1)..(i - 1) : IsCont(bs[j])
            ELSE
                LET len == LeadLen(bs[i])
                IN  /\ len > 0
                    /\ i + len - 1 <= n
                    /\ \A j \in (i + 1)..(i + len - 1) : IsCont(bs[j])
                    /\ len > 1 => SecondOk(bs[i], bs[i + 1])

(***************************************************************************)
(* Runtime::find_payload_info                                              *)
(***************************************************************************)
NoBytes == <<>>

Outcome(kind, msg) ==
    [kind |-> kind, msg |-> msg, payload_size |-> NoBytes,
     compression_type |-> NoBytes, payload_start_offset |-> 0,
     target_binary_name |-> NoBytes]

\* the search from the left: position instead of rposition
position_first(buffer) ==
    LET m == Len(MAGIC_MARKER)
        hits == {i \in 0..(Len(buffer) - m) :
                    SubSeq(buffer, i + 1, i + m) = MAGIC_MARKER}
    IN  IF hits = {} THEN -1
        ELSE CHOOSE i \in hits : \A j \in hits : i <= j

\* buffer.windows(10).rposition(|w| w == MAGIC_MARKER); -1 is None
rposition(buffer) ==
    LET m == Len(MAGIC_MARKER)
        hits == {i \in 0..(Len(buffer) - m) :
                    SubSeq(buffer, i + 1, i + m) = MAGIC_MARKER}
    IN  IF hits = {} THEN -1
        ELSE CHOOSE i \in hits : \A j \in hits : j <= i

\* kind: "None" | "Some" | "Err" (a returned error) | "Panic".
\* profile: "debug" (overflow checks on) or "release" (wrapping arithmetic).
find_payload_info(file, profile) ==
    LET file_size == Len(file)
        reach == FIXED_METADATA_SIZE + MAX_NAME_LEN
        search_start_offset == IF file_size > reach THEN file_size - reach ELSE 0
        buffer == SubSeq(file, search_start_offset + 1, file_size)
        marker_index == rposition(buffer)
        marker_start_in_file == search_start_offset + marker_index
        metadata_start == marker_start_in_file - BundleMetadataSize
        metadata_bytes == SubSeq(file, metadata_start + 1, marker_start_in_file)
        payload_size == SubSeq(metadata_bytes, 1, 8)
        compression_type == SubSeq(metadata_bytes, 9, 12)
        target_bin_name_len == SubSeq(metadata_bytes, 13, 16)
        name_len == SmallValue(target_bin_name_len)
        name_start == metadata_start - name_len
        name_bytes == SubSeq(file, name_start + 1, metadata_start)
        sum == AddWithCarry(to_le_bytes(FIXED_METADATA_SIZE + name_len, 8),
                            payload_size, 1, 0)
        total == SubSeq(sum, 1, 8)
    IN  IF marker_index = -1 THEN Outcome("None", "")
        \* marker_start_in_file - 16 on u64: overflow panics with overflow
        \* checks; wrapped, the offset is beyond i64 and the seek fails
        ELSE IF marker_start_in_file < BundleMetadataSize THEN
            IF profile = "debug" THEN Outcome("Panic", "attempt to subtract with overflow")
            ELSE Outcome("Err", "Invalid argument")
        ELSE IF IsZero(target_bin_name_len) THEN
            Outcome("Err", "Structure mismatch: Target binary name length is zero.")
        \* metadata_start.checked_sub(name_len).unwrap()
        ELSE IF ~IsSmall(target_bin_name_len) \/ name_len > metadata_start THEN
            Outcome("Panic", "called Option::unwrap() on a None value")
        ELSE IF ~from_utf8_ok(name_bytes) THEN
            Outcome("Err", "invalid utf-8 sequence")
        \* FIXED_METADATA_SIZE + name_len + payload_size on u64
        ELSE IF sum[9] = 1 /\ profile = "debug" THEN
            Outcome("Panic", "attempt to add with overflow")
        \* file_size.checked_sub(..).ok_or("Invalid payload offset")
        ELSE IF ~IsSmall(total) \/ SmallValue(total) > file_size THEN
            Outcome("Err", "Invalid payload offset")
        ELSE [kind |-> "Some", msg |-> "", payload_size |-> payload_size,
              compression_type |-> compression_type,
              payload_start_offset |-> file_size - SmallValue(total),
              target_binary_name |-> name_bytes]

(***************************************************************************)
(* The file system the generator reads.  Paths are strings; file_name and  *)
(* the bytes of a basename are tables over the paths of the model.         *)
(***************************************************************************)
LongName == [i \in 1..MAX_NAME_LEN |-> 120]

Targets == {"/bin/ls", "/opt/REX_BUNDLE", "/opt/long"}
ExtraBinFiles == {"/opt/bins/e1", "/opt/bins/e2"}
ExtraBinDirs == {"/opt/bins"}
Libraries == {"/a/libx.so", "/b/libx.so", "/a/liby.so"}
Loaders == {"/lib64/ld-linux-x86-64.so.2", "/lib/ld-musl-x86_64.so.1"}
AdditionalPaths == {"data", "nodata"}

\* Path::file_name
file_name(path) ==
    CASE path = "/bin/ls" -> "ls"
      [] path = "/opt/REX_BUNDLE" -> "REX_BUNDLE"
      [] path = "/opt/long" -> "long"
      [] path = "/opt/bins/e1" -> "e1"
      [] path = "/opt/bins/e2" -> "e2"
      [] path = "/opt/bins" -> "bins"
      [] path \in {"/a/libx.so", "/b/libx.so"} -> "libx.so"
      [] path = "/a/liby.so" -> "liby.so"
      [] path = "/lib64/ld-linux-x86-64.so.2" -> "ld-linux-x86-64.so.2"
      [] path = "/lib/ld-musl-x86_64.so.1" -> "ld-musl-x86_64.so.1"
      [] OTHER -> path

\* str::as_bytes of the target basenames ("long" stands for a basename of
\* MAX_NAME_LEN bytes)
as_bytes(name) ==
    CASE name = "ls" -> <<108, 115>>
      [] name = "REX_BUNDLE" -> MAGIC_MARKER
      [] name = "long" -> LongName
      [] OTHER -> <<63>>

\* path_str.contains("ld-linux") || path_str.contains("ld-musl")
IsLoaderPath(path) == path \in Loaders

\* What ldd prints for a binary: ok is the exit status, paths the word after
\* "=>" of each line that has one.
Ldd(ok, paths) == [ok |-> ok, paths |-> paths]

\* The environments of a generation: exists is the set of paths that exist,
\* dirs the immediate regular files of each directory, ldd the resolver's
\* answer for each binary (a static binary makes ldd exit non-zero),
\* loader the first path of find_system_loader's list that exists.
Environments ==
    LET all == Targets \cup ExtraBinFiles \cup ExtraBinDirs \cup Libraries
               \cup Loaders \cup {"data"}
        env(ex, lt, l1, l2, ld) ==
            [exists |-> ex, loader |-> ld,
             ldd |-> [p \in Targets \cup ExtraBinFiles |->
                        IF p \in Targets THEN lt
                        ELSE IF p = "/opt/bins/e1" THEN l1 ELSE l2]]
    IN  { \* a target and helpers whose lists overlap by path
          env(all, Ldd(TRUE, <<"/a/libx.so", "/lib64/ld-linux-x86-64.so.2", "/a/liby.so">>),
              Ldd(TRUE, <<"/a/libx.so">>), Ldd(TRUE, <<"/b/libx.so">>),
              "/lib64/ld-linux-x86-64.so.2"),
          \* disjoint target and helper lists, the helpers clash by basename
          env(all, Ldd(TRUE, <<"/a/liby.so">>),
              Ldd(TRUE, <<"/a/libx.so">>), Ldd(TRUE, <<"/b/libx.so">>),
              "/lib/ld-musl-x86_64.so.1"),
          \* a statically linked target; one helper list with a basename twice
          env(all, Ldd(FALSE, <<>>),
              Ldd(TRUE, <<"/a/libx.so", "/b/libx.so">>), Ldd(TRUE, <<>>),
              "none"),
          \* the target does not exist
          env(all \ Targets, Ldd(FALSE, <<>>), Ldd(TRUE, <<>>), Ldd(TRUE, <<>>),
              "/lib64/ld-linux-x86-64.so.2") }

is_dir(e, path) == path \in e.exists /\ path \in ExtraBinDirs
is_file(e, path) == path \in e.exists /\ path \notin ExtraBinDirs

\* fs::read_dir(entry), the entries that are files
read_dir(e, path) ==
    IF path = "/opt/bins" THEN <<"/opt/bins/e1", "/opt/bins/e2">> ELSE <<>>

Contains(seq, x) == \E i \in 1..Len(seq) : seq[i] = x

RECURSIVE SelectPaths(_, _)
SelectPaths(paths, e) ==
    IF paths = <<>> THEN <<>>
    ELSE LET p == Head(paths)
             rest == SelectPaths(Tail(paths), e)
         IN  IF p \in e.exists /\ ~IsLoaderPath(p) THEN <<p>> \o rest ELSE rest

\* get_dynamic_dependencies: [ok, deps]; ok = FALSE is Err (binary not found)
get_dynamic_dependencies(e, binary_path) ==
    IF binary_path \notin e.exists THEN [ok |-> FALSE, deps |-> <<>>]
    ELSE IF ~e.ldd[binary_path].ok THEN [ok |-> TRUE, deps |-> <<>>]
    ELSE [ok |-> TRUE, deps |-> SelectPaths(e.ldd[binary_path].paths, e)]

(***************************************************************************)
(* The staging tree: root, bins and libs are sets of [name, src] entries   *)
(* (the basename in the directory and the path the content came from).     *)
(***************************************************************************)
Entry(path) == [name |-> file_name(path), src |-> path]

Names(dir) == {x.name : x \in dir}

\* fs::copy: creates or overwrites the destination
fs_copy(dir, path) == {x \in dir : x.name # file_name(path)} \cup {Entry(path)}

\* fs_extra::copy_items with CopyOptions::new() (overwrite = false,
\* skip_exist = false): items are copied in order and the first one whose
\* destination exists fails the call; what was copied before it stays.
RECURSIVE copy_items(_, _)
copy_items(items, dir) ==
    IF items = <<>> THEN [ok |-> TRUE, dir |-> dir]
    ELSE IF file_name(Head(items)) \in Names(dir) THEN [ok |-> FALSE, dir |-> dir]
    ELSE copy_items(Tail(items), dir \cup {Entry(Head(items))})

RECURSIVE UniqueDeps(_, _)
UniqueDeps(deps, libs) ==
    IF deps = <<>> THEN <<>>
    ELSE LET rest == UniqueDeps(Tail(deps), libs)
         IN  IF file_name(Head(deps)) \notin Names(libs)
             THEN <<Head(deps)>> \o rest ELSE rest

\* copy_bin_and_deps(file_path, bin_dir, libs_dir): [ok, bins, libs]
copy_bin_and_deps(e, file_path, bins, libs) ==
    LET got == get_dynamic_dependencies(e, file_path)
        unique_deps == UniqueDeps(got.deps, libs)
        copied == copy_items(unique_deps, libs)
    IN  IF file_path \notin e.exists THEN [ok |-> FALSE, bins |-> bins, libs |-> libs]
        ELSE [ok |-> copied.ok, bins |-> fs_copy(bins, file_path), libs |-> copied.dir]

\* the files one --extra-bins entry stands for
EntryFiles(e, entry) ==
    IF is_dir(e, entry) THEN read_dir(e, entry)
    ELSE IF is_file(e, entry) THEN <<entry>>
    ELSE <<>>

RECURSIVE CopyBins(_, _, _, _)
CopyBins(e, files, bins, libs) ==
    IF files = <<>> THEN [ok |-> TRUE, bins |-> bins, libs |-> libs]
    ELSE LET r == copy_bin_and_deps(e, Head(files), bins, libs)
         IN  IF r.ok THEN CopyBins(e, Tail(files), r.bins, r.libs) ELSE r

\* final_libs: the target's list, then each --extra-libs path that exists
\* and is not in the list yet
RECURSIVE MergeExtraLibs(_, _, _)
MergeExtraLibs(final_libs, extra_libs, e) ==
    IF extra_libs = <<>> THEN final_libs
    ELSE LET lib == Head(extra_libs)
         IN  MergeExtraLibs(
                 IF lib \in e.exists /\ ~Contains(final_libs, lib)
                 THEN Append(final_libs, lib) ELSE final_libs,
                 Tail(extra_libs), e)

(***************************************************************************)
(* The trailer generate_bundle appends                                     *)
(***************************************************************************)
\* compression_id
compression_id(compression) ==
    IF compression = "zstd" THEN 0 ELSE IF compression = "xz" THEN 1 ELSE 99

\* the bytes of BundleMetadata (repr(C, packed), little-endian target)
metadata_bytes_of(payload_size, compression_type, name_len) ==
    to_le_bytes(payload_size, 8) \o to_le_bytes(compression_type, 4)
        \o to_le_bytes(name_len, 4)

(***************************************************************************)
(* Cli::parse                                                              *)
(***************************************************************************)
NoPath == "none"

EmptyCli ==
    [target_binary |-> NoPath, compression_level |-> 5, extra_libs |-> <<>>,
     extra_bins |-> <<>>, additional_files |-> <<>>]

\* val.parse::<i32>(), on the numerals of the model: [ok, value]
parse_i32(val) ==
    IF val = "9" THEN [ok |-> TRUE, value |-> 9] ELSE [ok |-> FALSE, value |-> 0]

\* kind: "cli" (Ok(cli)) | "err" (Err(msg)) | "exit" (std::process::exit(code))
Parsed(kind, code, msg, cli) == [kind |-> kind, code |-> code, msg |-> msg, cli |-> cli]

RECURSIVE parse(_, _)
parse(args, cli) ==
    IF args = <<>> THEN Parsed("cli", 0, "", cli)
    ELSE
    LET arg == Head(args)
        has == Len(args) >= 2
        val == args[2]
        more == Tail(Tail(args))
    IN  IF arg \in {"-t", "--target-binary"} THEN
            IF has THEN parse(more, [cli EXCEPT !.target_binary = val])
            ELSE Parsed("err", 0, "missing value for --target-binary", cli)
        ELSE IF arg \in {"-L", "--compression-level"} THEN
            IF ~has THEN Parsed("err", 0, "missing value for --compression-level", cli)
            ELSE IF ~parse_i32(val).ok THEN Parsed("err", 0, "invalid digit found in string", cli)
            ELSE parse(more, [cli EXCEPT !.compression_level = parse_i32(val).value])
        ELSE IF arg \in {"-l", "--extra-libs"} THEN
            IF has THEN parse(more, [cli EXCEPT !.extra_libs = Append(@, val)])
            ELSE Parsed("err", 0, "missing value for --extra-libs", cli)
        ELSE IF arg \in {"-b", "--extra-bins"} THEN
            IF has THEN parse(more, [cli EXCEPT !.extra_bins = Append(@, val)])
            ELSE Parsed("err", 0, "missing value for --extra-bins", cli)
        ELSE IF arg \in {"-a", "--additional-files"} THEN
            IF has THEN parse(more, [cli EXCEPT !.additional_files = Append(@, val)])
            ELSE Parsed("err", 0, "missing value for --additional-files", cli)
        ELSE IF arg \in {"-h", "--help"} THEN Parsed("exit", 0, "generator help", cli)
        ELSE IF arg \in {"-v", "--version"} THEN Parsed("exit", 0, "Rex version", cli)
        ELSE Parsed("exit", 1, "Unknown option", cli)

(***************************************************************************)
(* Inputs                                                                  *)
(***************************************************************************)
\* the tool's own executable image (no trailer)
Host == [i \in 1..HostLen |-> 127]

\* command lines (argv[1..])
ArgvChoices ==
    { <<>>, <<"--rex-help">>, <<"--rex-extract">>, <<"foo", "--rex-help">>,
      <<"-h">>, <<"-t">>,
      <<"-t", "/bin/ls">>, <<"-t", "/opt/REX_BUNDLE">>, <<"-t", "/opt/long">>,
      <<"-t", "/bin/ls", "-b", "/opt/bins/e1", "-b", "/opt/bins/e2">>,
      <<"-b", "/opt/bins", "-t", "/bin/ls">>,
      <<"-t", "/bin/ls", "-l", "/b/libx.so", "-a", "data", "-a", "nodata">> }

\* BundleArgs.compression
Compressions == {"zstd", "xz", "lz4"}

\* a trailer as the generator writes it, for a payload to carry inside
FakeTrailer == <<120>> \o metadata_bytes_of(0, 0, 1) \o MAGIC_MARKER

\* what the compressor may leave in the scratch file: a short stream, a
\* stream holding the marker followed by a well-formed trailer, a stream
\* ending in the marker, and a long one
Payloads ==
    { <<1, 2, 3>>,
      MAGIC_MARKER \o FakeTrailer,
      <<7>> \o MAGIC_MARKER,
      [i \in 1..FillLen |-> 0] }

(***************************************************************************)
(* State                                                                   *)
(***************************************************************************)
VARIABLES
    profile,        \* "debug" | "release": how the tool was built
    out,            \* the file at BundleArgs.output: [exists, bytes, mode]
    runs,           \* processes started so far
    tampered,       \* "no", or how the output file was damaged after it was written
    pc,             \* position of the running process
    exe,            \* bytes of std::env::current_exe() of the process
    argv,           \* std::env::args().skip(1)
    payload_info,   \* Runtime.payload_info (kind "None" or "Some")
    executed,       \* Runtime.executed
    result,         \* what rex_main returns: [kind, msg]
    exit_code,      \* -1 while the process runs
    stderr,         \* diagnostics printed, in order
    stdout,
    mode,           \* "none" | "bundled" | "generator"
    gen,            \* generate_bundle's locals
    rt              \* run / run_bundled_binary's locals

vars == <<profile, out, runs, tampered, pc, exe, argv, payload_info, executed,
          result, exit_code, stderr, stdout, mode, gen, rt>>

procVars == <<payload_info, executed, result, exit_code, stderr, stdout, mode>>

NoResult == [kind |-> "none", msg |-> ""]
Ok == [kind |-> "ok", msg |-> ""]
Err(msg) == [kind |-> "err", msg |-> msg]

NoEnv == [exists |-> {}, loader |-> NoPath,
          ldd |-> [p \in Targets \cup ExtraBinFiles |-> Ldd(FALSE, <<>>)]]

GenInit ==
    [args |-> EmptyCli, compression |-> "", env |-> NoEnv, final_libs |-> <<>>,
     staging |-> "none", root |-> {}, bins |-> {}, libs |-> {},
     target_name |-> "", scratch |-> "none", payload |-> <<>>,
     written |-> FALSE]

Lit(s) == [root |-> "arg", bundle |-> <<>>, sub |-> s, leaf |-> <<>>]
\* <extraction_root>/<name>_bundle/<sub>/<leaf>
BundlePath(name, sub, leaf) == [root |-> "tmp", bundle |-> name, sub |-> sub, leaf |-> leaf]

RtInit ==
    [info |-> Outcome("None", ""), tmp |-> "none", extract_dest |-> "none",
     extracted |-> FALSE, probed |-> FALSE, target_exists |-> FALSE,
     loader |-> NoPath, spawn_failed |-> FALSE,
     spawned |-> FALSE, cmd_args |-> <<>>, child_code |-> -1]

NoFile == [exists |-> FALSE, bytes |-> <<>>, mode |-> 0]

Init ==
    /\ profile \in {"debug", "release"}
    /\ out = NoFile
    /\ runs = 0
    /\ tampered = "no"
    /\ pc = "idle"
    /\ exe = <<>>
    /\ argv = <<>>
    /\ payload_info = Outcome("None", "")
    /\ executed = FALSE
    /\ result = NoResult
    /\ exit_code = -1
    /\ stderr = <<>>
    /\ stdout = <<>>
    /\ mode = "none"
    /\ gen = GenInit
    /\ rt = RtInit

(***************************************************************************)
(* Starting a process: first the tool itself, then a copy of the file it   *)
(* wrote, when the generation succeeded (the output of a failed one is     *)
(* garbage to be deleted), possibly damaged in between.                    *)
(***************************************************************************)
Launch ==
    /\ pc \in {"idle", "exited"}
    /\ IF runs = 0 THEN exe' = Host
       ELSE /\ runs = 1
            /\ out.exists
            /\ exit_code = 0
            /\ exe' = out.bytes
    /\ \E a \in ArgvChoices : argv' = a
    /\ runs' = runs + 1
    /\ pc' = "new"
    /\ payload_info' = Outcome("None", "")
    /\ executed' = FALSE
    /\ result' = NoResult
    /\ exit_code' = -1
    /\ stderr' = <<>>
    /\ stdout' = <<>>
    /\ mode' = "none"
    /\ gen' = GenInit
    /\ rt' = RtInit
    /\ UNCHANGED <<profile, out, tampered>>

(***************************************************************************)
(* main                                                                    *)
(***************************************************************************)
\* Runtime::new() and main's match on it.  A panic ends the process with
\* status 101.
RuntimeNew ==
    /\ pc = "new"
    /\ LET r == find_payload_info(exe, profile)
       IN  IF r.kind = "Panic" THEN
               /\ stderr' = Append(stderr, "thread 'main' panicked")
               /\ exit_code' = 101
               /\ pc' = "exited"
               /\ UNCHANGED payload_info
           ELSE IF r.kind = "Err" THEN
               /\ stderr' = Append(stderr, "Error create runtime")
               /\ exit_code' = 1
               /\ pc' = "exited"
               /\ UNCHANGED payload_info
           ELSE
               /\ payload_info' = r
               /\ pc' = "rex_main"
               /\ UNCHANGED <<stderr, exit_code>>
    /\ UNCHANGED <<profile, out, runs, tampered, exe, argv, executed, result,
                   stdout, mode, gen, rt>>

\* a length test that counts argv[0] out
no_arguments_never(args) == FALSE

\* args_vec.len() == 1: nothing follows argv[0]
no_arguments(args) == args = <<>>

\* Runtime::is_bundled
is_bundled(info) == info.kind = "Some"

\* rex_main up to the call of Runtime::run or generate_bundle
RexMain ==
    /\ pc = "rex_main"
    /\ IF is_bundled(payload_info) THEN
           /\ mode' = "bundled"
           /\ pc' = "run"
           /\ UNCHANGED <<result, exit_code, stdout, stderr, gen>>
       ELSE IF no_arguments(argv) THEN
           /\ mode' = "generator"
           /\ stdout' = Append(stdout, "generator help")
           /\ result' = Ok
           /\ pc' = "main_exit"
           /\ UNCHANGED <<exit_code, stderr, gen>>
       ELSE LET p == parse(argv, EmptyCli)
            IN  /\ mode' = "generator"
                /\ IF p.kind = "exit" THEN
                       \* help and version go to stdout; an unknown option
                       \* is reported on stderr, followed by the usage
                       /\ exit_code' = p.code
                       /\ stdout' = Append(stdout, IF p.code = 0 THEN p.msg ELSE "Usage")
                       /\ stderr' = IF p.code = 0 THEN stderr ELSE Append(stderr, p.msg)
                       /\ pc' = "exited"
                       /\ UNCHANGED <<result, gen>>
                   ELSE IF p.kind = "err" THEN
                       /\ result' = Err(p.msg)
                       /\ pc' = "main_exit"
                       /\ UNCHANGED <<exit_code, stdout, stderr, gen>>
                   ELSE IF p.cli.target_binary = NoPath THEN
                       /\ result' = Err("missing --target-binary")
                       /\ pc' = "main_exit"
                       /\ UNCHANGED <<exit_code, stdout, stderr, gen>>
                   ELSE
                       /\ \E c \in Compressions, e \in Environments :
                              gen' = [gen EXCEPT !.args = p.cli, !.compression = c,
                                                 !.env = e]
                       /\ pc' = "generate"
                       /\ UNCHANGED <<result, exit_code, stdout, stderr>>
    /\ UNCHANGED <<profile, out, runs, tampered, exe, argv, payload_info, executed, rt>>

\* the end of main: the exit code, and the diagnostic unless has_run()
MainExit ==
    /\ pc = "main_exit"
    /\ IF result.kind = "ok" THEN
           /\ exit_code' = 0
           /\ UNCHANGED stderr
       ELSE
           /\ exit_code' = 1
           /\ stderr' = IF ~executed THEN Append(stderr, "Error: " \o result.msg)
                        ELSE stderr
    /\ pc' = "exited"
    /\ UNCHANGED <<profile, out, runs, tampered, exe, argv, payload_info, executed,
                   result, stdout, mode, gen, rt>>

(***************************************************************************)
(* generate_bundle, one action per stage                                   *)
(***************************************************************************)
\* fs_extra's error for a destination that exists, in libs/ or in the root
AlreadyExists(dir) == "Path exists: " \o dir

\* a return with Err: the staging TempDir is dropped on the way out
GenFail(msg) ==
    /\ result' = Err(msg)
    /\ gen' = [gen EXCEPT !.staging = IF @ = "present" THEN "removed" ELSE @]
    /\ pc' = "main_exit"

RECURSIVE AllEntryFiles(_, _)
AllEntryFiles(e, entries) ==
    IF entries = <<>> THEN <<>>
    ELSE EntryFiles(e, Head(entries)) \o AllEntryFiles(e, Tail(entries))

RECURSIVE ExistingAdditional(_, _)
ExistingAdditional(e, entries) ==
    IF entries = <<>> THEN <<>>
    ELSE (IF Head(entries) \in e.exists THEN <<Head(entries)>> ELSE <<>>)
         \o ExistingAdditional(e, Tail(entries))

\* the dependency list of the target, merged with --extra-libs
GenCollect ==
    /\ pc = "generate"
    /\ LET got == get_dynamic_dependencies(gen.env, gen.args.target_binary)
       IN  /\ gen' = [gen EXCEPT !.final_libs =
                         MergeExtraLibs(got.deps, gen.args.extra_libs, gen.env)]
           /\ stderr' = IF ~got.ok
                        THEN Append(stderr, "[Generator Warning] Automatic detection failed")
                        ELSE IF ~gen.env.ldd[gen.args.target_binary].ok
                        THEN Append(stderr, "[Generator Warning] 'ldd' exited with code")
                        ELSE stderr
    /\ pc' = "stage"
    /\ UNCHANGED <<profile, out, runs, tampered, exe, argv, payload_info, executed,
                   result, exit_code, stdout, mode, rt>>

\* the staging directory, the loader and the target binary
GenStage ==
    /\ pc = "stage"
    /\ LET target == gen.args.target_binary
           libs == IF gen.env.loader # NoPath THEN fs_copy({}, gen.env.loader) ELSE {}
           dirs == {[name |-> "bins", src |-> "dir"], [name |-> "libs", src |-> "dir"]}
       IN  IF target \notin gen.env.exists THEN
               /\ result' = Err("No such file or directory")
               /\ gen' = [gen EXCEPT !.staging = "removed", !.libs = libs, !.root = dirs]
               /\ pc' = "main_exit"
           ELSE
               /\ gen' = [gen EXCEPT !.staging = "present", !.libs = libs,
                                     !.root = fs_copy(dirs, target),
                                     !.target_name = file_name(target)]
               /\ pc' = "extra_bins"
               /\ UNCHANGED result
    /\ stderr' = IF gen.env.loader = NoPath
                 THEN Append(stderr, "[Warning] No system loader found! Bundle may fail.")
                 ELSE stderr
    /\ UNCHANGED <<profile, out, runs, tampered, exe, argv, payload_info, executed,
                   exit_code, stdout, mode, rt>>

\* the loop over --extra-bins
GenExtraBins ==
    /\ pc = "extra_bins"
    /\ LET r == CopyBins(gen.env, AllEntryFiles(gen.env, gen.args.extra_bins),
                         gen.bins, gen.libs)
       IN  IF r.ok THEN
               /\ gen' = [gen EXCEPT !.bins = r.bins, !.libs = r.libs]
               /\ pc' = "copy_libs"
               /\ UNCHANGED result
           ELSE
               /\ gen' = [gen EXCEPT !.bins = r.bins, !.libs = r.libs,
                                     !.staging = "removed"]
               /\ result' = Err(AlreadyExists("libs"))
               /\ pc' = "main_exit"
    /\ UNCHANGED <<profile, out, runs, tampered, exe, argv, payload_info, executed,
                   exit_code, stderr, stdout, mode, rt>>

\* fs_extra::copy_items(final_libs, libs_dir)
GenCopyLibs ==
    /\ pc = "copy_libs"
    /\ LET r == copy_items(gen.final_libs, gen.libs)
       IN  IF r.ok THEN
               /\ gen' = [gen EXCEPT !.libs = r.dir]
               /\ pc' = "additional"
               /\ UNCHANGED result
           ELSE
               /\ gen' = [gen EXCEPT !.libs = r.dir, !.staging = "removed"]
               /\ result' = Err(AlreadyExists("libs"))
               /\ pc' = "main_exit"
    /\ UNCHANGED <<profile, out, runs, tampered, exe, argv, payload_info, executed,
                   exit_code, stderr, stdout, mode, rt>>

\* the additional files that exist, copied to the staging root
GenAdditional ==
    /\ pc = "additional"
    /\ LET extra_paths == ExistingAdditional(gen.env, gen.args.additional_files)
           r == copy_items(extra_paths, gen.root)
       IN  /\ IF r.ok THEN
                  /\ gen' = [gen EXCEPT !.root = r.dir]
                  /\ pc' = "package"
                  /\ UNCHANGED result
              ELSE
                  /\ gen' = [gen EXCEPT !.root = r.dir, !.staging = "removed"]
                  /\ result' = Err(AlreadyExists("root"))
                  /\ pc' = "main_exit"
           /\ stderr' = IF Len(extra_paths) < Len(gen.args.additional_files)
                        THEN Append(stderr, "[Warning] Additional path not found")
                        ELSE stderr
    /\ UNCHANGED <<profile, out, runs, tampered, exe, argv, payload_info, executed,
                   exit_code, stdout, mode, rt>>

\* create_compressed_payload: the scratch file holds what the compressor wrote
GenPackage ==
    /\ pc = "package"
    /\ IF gen.compression \notin {"zstd", "xz"} THEN
           /\ gen' = [gen EXCEPT !.scratch = "present", !.staging = "removed"]
           /\ result' = Err("Unknown compression format")
           /\ pc' = "main_exit"
       ELSE
           /\ \E bytes \in Payloads :
                  gen' = [gen EXCEPT !.scratch = "present", !.payload = bytes]
           /\ pc' = "copy_exe"
           /\ UNCHANGED result
    /\ UNCHANGED <<profile, out, runs, tampered, exe, argv, payload_info, executed,
                   exit_code, stderr, stdout, mode, rt>>

\* fs::copy(current_exe, output) and the mode 0o755
GenCopyExe ==
    /\ pc = "copy_exe"
    /\ out' = [exists |-> TRUE, bytes |-> exe, mode |-> 493]
    /\ gen' = [gen EXCEPT !.written = TRUE]
    /\ pc' = "append_payload"
    /\ UNCHANGED <<profile, runs, tampered, exe, argv, payload_info, executed,
                   result, exit_code, stderr, stdout, mode, rt>>

\* io::copy(payload_file, final_file), the file opened for append
GenAppendPayload ==
    /\ pc = "append_payload"
    /\ out' = [out EXCEPT !.bytes = @ \o gen.payload]
    /\ pc' = "write_name"
    /\ UNCHANGED <<profile, runs, tampered, exe, argv, payload_info, executed,
                   result, exit_code, stderr, stdout, mode, gen, rt>>

\* final_file.write_all(target_bin_name.as_bytes())
GenWriteName ==
    /\ pc = "write_name"
    /\ out' = [out EXCEPT !.bytes = @ \o as_bytes(gen.target_name)]
    /\ pc' = "write_metadata"
    /\ UNCHANGED <<profile, runs, tampered, exe, argv, payload_info, executed,
                   result, exit_code, stderr, stdout, mode, gen, rt>>

\* a metadata record without the compression_type field
write_metadata_short(bytes, payload, compression, name) ==
    bytes \o to_le_bytes(Len(payload), 8) \o to_le_bytes(Len(name), 4)

\* final_file.write_all(metadata_bytes)
write_metadata(bytes, payload, compression, name) ==
    bytes \o metadata_bytes_of(Len(payload), compression_id(compression), Len(name))

GenWriteMetadata ==
    /\ pc = "write_metadata"
    /\ out' = [out EXCEPT !.bytes = write_metadata(@, gen.payload, gen.compression,
                                                   as_bytes(gen.target_name))]
    /\ pc' = "write_marker"
    /\ UNCHANGED <<profile, runs, tampered, exe, argv, payload_info, executed,
                   result, exit_code, stderr, stdout, mode, gen, rt>>

\* the marker, the removal of the scratch file, and the return
GenWriteMarker ==
    /\ pc = "write_marker"
    /\ out' = [out EXCEPT !.bytes = @ \o MAGIC_MARKER]
    /\ gen' = [gen EXCEPT !.scratch = "removed", !.staging = "removed"]
    /\ stdout' = Append(stdout, "[Generator Success]")
    /\ result' = Ok
    /\ pc' = "main_exit"
    /\ UNCHANGED <<profile, runs, tampered, exe, argv, payload_info, executed,
                   exit_code, stderr, mode, rt>>

\* any of the output's writes may fail; what was written stays
GenIoError ==
    /\ pc \in {"copy_exe", "append_payload", "write_name", "write_metadata",
               "write_marker"}
    /\ GenFail("io error")
    /\ UNCHANGED <<profile, out, runs, tampered, exe, argv, payload_info, executed,
                   exit_code, stderr, stdout, mode, rt>>

(***************************************************************************)
(* Runtime::run and run_bundled_binary, one action per blocking step       *)
(***************************************************************************)
\* extract_payload: the codec is chosen by compression_type; readable says
\* whether the decoder and the tar extractor get through the stream
extract_payload(info, readable) ==
    IF info.compression_type \notin {to_le_bytes(0, 4), to_le_bytes(1, 4)}
    THEN Err("Unknown compression ID")
    ELSE IF readable THEN Ok
    ELSE Err("extraction failed")

\* a TempDir handle that is leaked: its directory stays
drop_temp_dir_forget(tmp) == tmp

\* temp_dir_handle goes out of scope when run_bundled_binary returns: the
\* Drop of TempDir removes the directory it created
drop_temp_dir(tmp) == IF tmp = "present" THEN "removed" ELSE tmp

\* a result that is never taken for an error
is_err_never(r) == FALSE

\* the ? after a call: an Err makes the caller return it at once
is_err(r) == r.kind # "ok"

\* Runtime::run: the match on args[1]
RuntimeRun ==
    /\ pc = "run"
    /\ IF Len(argv) > 0 /\ argv[1] = "--rex-help" THEN
           /\ stdout' = Append(stdout, "runtime help")
           /\ result' = Ok
           /\ pc' = "main_exit"
           /\ UNCHANGED <<payload_info, rt>>
       ELSE IF Len(argv) > 0 /\ argv[1] = "--rex-extract" THEN
           /\ stdout' = Append(stdout, "[rex] Extracting bundle to")
           /\ rt' = [rt EXCEPT !.info = payload_info]
           /\ pc' = "extract_cwd"
           /\ UNCHANGED <<payload_info, result>>
       ELSE
           \* self.payload_info.take()
           /\ rt' = [rt EXCEPT !.info = payload_info]
           /\ payload_info' = Outcome("None", "")
           /\ pc' = "tempdir"
           /\ UNCHANGED <<stdout, result>>
    /\ UNCHANGED <<profile, out, runs, tampered, exe, argv, executed, exit_code,
                   stderr, mode, gen>>

\* --rex-extract: extract_payload(info, current_dir)
ExtractToCwd ==
    /\ pc = "extract_cwd"
    /\ \E readable \in BOOLEAN :
          LET r == extract_payload(rt.info, readable)
          IN  /\ result' = r
              /\ rt' = [rt EXCEPT !.extract_dest = "cwd", !.extracted = (r.kind = "ok")]
              /\ stdout' = IF r.kind = "ok"
                           THEN Append(stdout, "[rex] Extraction completed successfully!")
                           ELSE stdout
    /\ pc' = "main_exit"
    /\ UNCHANGED <<profile, out, runs, tampered, exe, argv, payload_info, executed,
                   exit_code, stderr, mode, gen>>

\* tempdir()?
CreateTempDir ==
    /\ pc = "tempdir"
    /\ \E created \in BOOLEAN :
          IF created THEN
              /\ rt' = [rt EXCEPT !.tmp = "present"]
              /\ pc' = "extract_tmp"
              /\ UNCHANGED result
          ELSE
              /\ result' = Err("cannot create temporary directory")
              /\ pc' = "main_exit"
              /\ UNCHANGED rt
    /\ UNCHANGED <<profile, out, runs, tampered, exe, argv, payload_info, executed,
                   exit_code, stderr, stdout, mode, gen>>

\* Self::extract_payload(info, extraction_root)?
ExtractToTemp ==
    /\ pc = "extract_tmp"
    /\ \E readable \in BOOLEAN :
          LET r == extract_payload(rt.info, readable)
          IN  IF ~is_err(r) THEN
                  /\ rt' = [rt EXCEPT !.extract_dest = "tmp",
                                      !.extracted = (r.kind = "ok")]
                  /\ pc' = "probe"
                  /\ UNCHANGED result
              ELSE
                  /\ rt' = [rt EXCEPT !.extract_dest = "tmp",
                                      !.tmp = drop_temp_dir(rt.tmp)]
                  /\ result' = r
                  /\ pc' = "main_exit"
    /\ UNCHANGED <<profile, out, runs, tampered, exe, argv, payload_info, executed,
                   exit_code, stderr, stdout, mode, gen>>

\* the arguments of the loader, the first of the user's left out
cmd_args_skip(name, args) ==
    <<Lit("--library-path"), BundlePath(name, "libs", <<>>), BundlePath(name, "", name)>>
        \o [i \in 1..(Len(args) - 1) |-> Lit(args[i + 1])]

\* the arguments of the loader
cmd_args_of(name, args) ==
    <<Lit("--library-path"), BundlePath(name, "libs", <<>>), BundlePath(name, "", name)>>
        \o [i \in 1..Len(args) |-> Lit(args[i])]

\* the probes of the extracted tree, PATH, and cmd_args
ProbeBundle ==
    /\ pc = "probe"
    /\ \E target_exists \in BOOLEAN, present \in SUBSET Loaders :
          LET name == rt.info.target_binary_name
              glibc_loader == "/lib64/ld-linux-x86-64.so.2"
              musl_loader == "/lib/ld-musl-x86_64.so.1"
          IN  IF ~target_exists THEN
                  /\ rt' = [rt EXCEPT !.probed = TRUE, !.tmp = drop_temp_dir(rt.tmp)]
                  /\ result' = Err("Target binary not found in bundle")
                  /\ pc' = "main_exit"
              ELSE IF present = {} THEN
                  /\ rt' = [rt EXCEPT !.probed = TRUE, !.target_exists = TRUE,
                                      !.tmp = drop_temp_dir(rt.tmp)]
                  /\ result' = Err("No compatible loader found (ld-linux or ld-musl)")
                  /\ pc' = "main_exit"
              ELSE
                  /\ rt' = [rt EXCEPT !.probed = TRUE, !.target_exists = TRUE,
                               !.loader = IF glibc_loader \in present
                                          THEN file_name(glibc_loader)
                                          ELSE file_name(musl_loader),
                               !.cmd_args = cmd_args_of(name, argv)]
                  /\ pc' = "spawn"
                  /\ UNCHANGED result
    /\ UNCHANGED <<profile, out, runs, tampered, exe, argv, payload_info, executed,
                   exit_code, stderr, stdout, mode, gen>>

\* Command::new(loader_path).args(cmd_args).status(): the spawn
SpawnLoader ==
    /\ pc = "spawn"
    /\ \E started \in BOOLEAN :
          IF started THEN
              /\ rt' = [rt EXCEPT !.spawned = TRUE]
              /\ pc' = "wait"
              /\ UNCHANGED <<executed, result>>
          ELSE
              /\ rt' = [rt EXCEPT !.spawn_failed = TRUE, !.tmp = drop_temp_dir(rt.tmp)]
              /\ executed' = TRUE
              /\ result' = Err("Failed to run bundled binary")
              /\ pc' = "main_exit"
    /\ UNCHANGED <<profile, out, runs, tampered, exe, argv, payload_info, exit_code,
                   stderr, stdout, mode, gen>>

\* the result of run_bundled_binary for a child status; code -1 stands for
\* a child ended by a signal
status_result(code) ==
    IF code = 0 THEN Ok ELSE Err("Bundled binary exited with code")

\* .status(): the child ends
ChildExit ==
    /\ pc = "wait"
    /\ \E code \in -1..MaxChildCode :
          /\ rt' = [rt EXCEPT !.child_code = code, !.tmp = drop_temp_dir(rt.tmp)]
          /\ result' = status_result(code)
    /\ executed' = TRUE
    /\ pc' = "main_exit"
    /\ UNCHANGED <<profile, out, runs, tampered, exe, argv, payload_info, exit_code,
                   stderr, stdout, mode, gen>>

(***************************************************************************)
(* Damage to the written file between the two runs                         *)
(***************************************************************************)
SetBytes(b, from, new) ==
    [i \in 1..Len(b) |-> IF i >= from /\ i < from + Len(new) THEN new[i - from + 1] ELSE b[i]]

DropPrefix(b, k) == SubSeq(b, k + 1, Len(b))

TamperKinds ==
    {"last_byte", "payload_size_max", "payload_size_file", "name_len_zero",
     "name_len_big", "name_len_fit", "name_len_max", "name_slash", "name_invalid",
     "only_marker", "only_metadata", "no_host"}

\* b is at least a trailer long; the fields are where a bundle has them
Tampering(b, kind) ==
    LET n == Len(b)
        meta == n - FIXED_METADATA_SIZE
    IN  CASE kind = "last_byte" -> SetBytes(b, n, <<(b[n] + 1) % 256>>)
          [] kind = "payload_size_max" -> SetBytes(b, meta + 1, [i \in 1..8 |-> 255])
          [] kind = "payload_size_file" -> SetBytes(b, meta + 1, to_le_bytes(n, 8))
          [] kind = "name_len_zero" -> SetBytes(b, meta + 13, to_le_bytes(0, 4))
          [] kind = "name_len_big" -> SetBytes(b, meta + 13, to_le_bytes(MAX_NAME_LEN + 1, 4))
          \* a name field longer than MAX_NAME_LEN, taken out of the payload
          [] kind = "name_len_fit" ->
                IF meta > MAX_NAME_LEN
                THEN SetBytes(b, meta + 1,
                              metadata_bytes_of(meta - (MAX_NAME_LEN + 1), 0, MAX_NAME_LEN + 1))
                ELSE b
          [] kind = "name_len_max" -> SetBytes(b, meta + 13, [i \in 1..4 |-> 255])
          [] kind = "name_slash" -> SetBytes(b, meta, <<47>>)
          [] kind = "name_invalid" -> SetBytes(b, meta, <<255>>)
          [] kind = "only_marker" -> DropPrefix(b, n - Len(MAGIC_MARKER))
          [] kind = "only_metadata" -> DropPrefix(b, meta)
          [] kind = "no_host" -> DropPrefix(b, HostLen + 1)

Tamper ==
    /\ pc = "exited"
    /\ runs = 1
    /\ tampered = "no"
    /\ out.exists
    /\ exit_code = 0
    /\ Len(out.bytes) > FIXED_METADATA_SIZE
    /\ \E kind \in TamperKinds :
          /\ Tampering(out.bytes, kind) # out.bytes
          /\ out' = [out EXCEPT !.bytes = Tampering(out.bytes, kind)]
          /\ tampered' = kind
    /\ UNCHANGED <<profile, runs, pc, exe, argv, payload_info, executed, result,
                   exit_code, stderr, stdout, mode, gen, rt>>

Next ==
    \/ Launch
    \/ RuntimeNew
    \/ RexMain
    \/ MainExit
    \/ GenCollect
    \/ GenStage
    \/ GenExtraBins
    \/ GenCopyLibs
    \/ GenAdditional
    \/ GenPackage
    \/ GenCopyExe
    \/ GenAppendPayload
    \/ GenWriteName
    \/ GenWriteMetadata
    \/ GenWriteMarker
    \/ GenIoError
    \/ RuntimeRun
    \/ ExtractToCwd
    \/ CreateTempDir
    \/ ExtractToTemp
    \/ ProbeBundle
    \/ SpawnLoader
    \/ ChildExit
    \/ Tamper

Spec == Init /\ [][Next]_vars

(***************************************************************************)
(* Properties                                                              *)
(***************************************************************************)
IsPrefix(a, b) == Len(a) <= Len(b) /\ a = SubSeq(b, 1, Len(a))

\* generate_bundle has just returned Ok
Generated == pc = "main_exit" /\ gen.written /\ result.kind = "ok"

\* the process is generating and has created the output file
Writing ==
    /\ gen.written
    /\ pc \in {"append_payload", "write_name", "write_metadata", "write_marker",
               "main_exit"}

TargetNameBytes == as_bytes(gen.target_name)

\* C1: round trip of the trailer.  Run on the file generate_bundle has just
\* written, the trailer locator returns Some(PayloadInfo) with the target's
\* basename, the number of payload bytes appended, and the length of the
\* copied host image as the payload's start offset; also when the payload
\* holds the marker and a well-formed trailer of its own.
C1_RoundTrip ==
    Generated =>
        LET info == find_payload_info(out.bytes, profile)
        IN  /\ Len(TargetNameBytes) \in 1..MAX_NAME_LEN
            /\ info.kind = "Some"
            /\ info.target_binary_name = TargetNameBytes
            /\ info.payload_size = to_le_bytes(Len(gen.payload), 8)
            /\ info.payload_start_offset = Len(exe)

\* a bundle was written whose payload carries the marker and a trailer
C1_Witness ==
    /\ Generated
    /\ gen.payload = MAGIC_MARKER \o FakeTrailer
    /\ gen.target_name = "REX_BUNDLE"

\* the layout with a metadata record of k bytes holding fields
Layout(fields) ==
    exe \o gen.payload \o TargetNameBytes \o fields \o MAGIC_MARKER

SearchStart ==
    IF Len(exe) > FIXED_METADATA_SIZE + MAX_NAME_LEN
    THEN Len(exe) - (FIXED_METADATA_SIZE + MAX_NAME_LEN) ELSE 0

MarkerFound == rposition(SubSeq(exe, SearchStart + 1, Len(exe))) # -1

MarkerStart == SearchStart + rposition(SubSeq(exe, SearchStart + 1, Len(exe)))

MetadataStart == MarkerStart - BundleMetadataSize

NameLenField == SubSeq(exe, MarkerStart - 3, MarkerStart)

PayloadSizeField == SubSeq(exe, MetadataStart + 1, MetadataStart + 8)

NameField ==
    SubSeq(exe, MetadataStart - SmallValue(NameLenField) + 1, MetadataStart)

\* 0 < name_len <= 256, metadata_start >= name_len, the name is UTF-8 and
\* holds no '/'
WellFormedName ==
    /\ MarkerStart >= BundleMetadataSize
    /\ IsSmall(NameLenField)
    /\ SmallValue(NameLenField) > 0
    /\ SmallValue(NameLenField) <= MAX_NAME_LEN
    /\ MetadataStart >= SmallValue(NameLenField)
    /\ from_utf8_ok(NameField)
    /\ \A i \in 1..Len(NameField) : NameField[i] # 47

\* file_size - (marker + metadata + name_len + payload_size) is negative
PayloadTooLarge ==
    \/ ~IsSmall(PayloadSizeField)
    \/ FIXED_METADATA_SIZE + SmallValue(NameLenField) + SmallValue(PayloadSizeField)
           > Len(exe)

\* what the process shows of the locator's result
Located == runs >= 1 /\ pc \notin {"new", "rex_main"}
LocatorSome == mode = "bundled"
LocatorNone == mode = "generator"
LocatorErr ==
    /\ mode = "none"
    /\ pc = "exited"
    /\ exit_code = 1
    /\ stderr = <<"Error create runtime">>
LocatorPanic == mode = "none" /\ pc = "exited" /\ exit_code = 101

\* C3 as stated: when the marker is found in the search window, the locator
\* returns Some only for a well-formed name field, and in every other case
\* returns the CorruptTrailer error as a value: no panic, no None, no Some.
C3_Claim ==
    (Located /\ MarkerFound) =>
        /\ LocatorSome => WellFormedName
        /\ ~WellFormedName => LocatorErr

\* C4 as stated: a marker with a payload_size too large for the file (the
\* rest of the trailer well-formed) makes the locator fail with
\* CorruptTrailer; the process exits with code 1, extracts nothing, spawns
\* nothing and does not enter generator mode.
C4_Claim ==
    (runs >= 1 /\ pc # "new" /\ MarkerFound /\ WellFormedName /\ PayloadTooLarge) =>
        /\ mode = "none"
        /\ rt = RtInit
        /\ gen = GenInit
        /\ pc = "exited" => LocatorErr

\* a bundle is run whose last byte was changed, and the search finds no marker
LastByteCorrupted == runs = 2 /\ tampered = "last_byte" /\ ~MarkerFound

\* C5 as stated: such a run exits with code 1 and a diagnostic, for every
\* argument list; it never exits 0 and never behaves as the generator.
C5_Original ==
    (LastByteCorrupted /\ pc = "exited") =>
        /\ exit_code = 1
        /\ stderr # <<>>
        /\ mode # "generator"

\* C5 as amended: with no marker in the last 282 bytes the image is taken
\* for the tool itself.  The process is in generator mode: it extracts
\* nothing and spawns nothing; with no arguments it prints the generator's
\* help and exits 0 without a diagnostic; with arguments it parses them as
\* the generator's command line, so the runtime's own flags and any other
\* unknown word end it with "Unknown option" and code 1.
C5_GeneratorMode ==
    (LastByteCorrupted /\ Located) =>
        /\ LocatorNone
        /\ rt = RtInit
        /\ (pc = "exited" /\ argv = <<>>) =>
              exit_code = 0 /\ stdout = <<"generator help">> /\ stderr = <<>>
        /\ (pc = "exited" /\ argv # <<>>
                /\ argv[1] \in {"--rex-help", "--rex-extract", "foo"}) =>
              exit_code = 1 /\ stderr = <<"Unknown option">>

\* such a run, without arguments, has ended with code 0
C5_Witness ==
    /\ LastByteCorrupted
    /\ pc = "exited"
    /\ argv = <<>>
    /\ exit_code = 0
    /\ mode = "generator"

(***************************************************************************)
(* The bundled run                                                         *)
(***************************************************************************)
FirstArg == IF Len(argv) > 0 THEN argv[1] ELSE ""

\* C6: mode selection and argument forwarding once the trailer has parsed.
\* The generator is never reached.  --rex-help prints the runtime's help and
\* exits 0 without extracting or spawning.  --rex-extract extracts into the
\* current directory only, never spawns, and exits 0 exactly when the
\* extraction went through.  Every other argv, the empty one too, leads to
\* the loader: when it is spawned its arguments are --library-path, libs_dir,
\* target_path and then argv[1..] unchanged and in order, and the run ends
\* without a spawn only after a failure (extraction, target, loader, spawn).
C6_ModeSelection ==
    LocatorSome =>
        /\ gen = GenInit
        /\ \A i \in 1..Len(stdout) : stdout[i] \notin {"generator help", "Usage"}
        /\ FirstArg = "--rex-help" =>
              /\ rt = RtInit
              /\ pc = "exited" =>
                    exit_code = 0 /\ stdout = <<"runtime help">> /\ stderr = <<>>
        /\ FirstArg = "--rex-extract" =>
              /\ ~rt.spawned /\ rt.cmd_args = <<>> /\ rt.tmp = "none"
              /\ rt.extract_dest \in {"none", "cwd"}
              /\ pc = "exited" =>
                    /\ rt.extract_dest = "cwd"
                    /\ exit_code = 0 <=> rt.extracted
        /\ FirstArg \notin {"--rex-help", "--rex-extract"} =>
              /\ rt.extract_dest # "cwd"
              /\ rt.spawned =>
                    /\ rt.extracted
                    /\ Len(rt.cmd_args) = 3 + Len(argv)
                    /\ rt.cmd_args[1] = Lit("--library-path")
                    /\ rt.cmd_args[2] = BundlePath(rt.info.target_binary_name, "libs", <<>>)
                    /\ rt.cmd_args[3] = BundlePath(rt.info.target_binary_name, "",
                                                   rt.info.target_binary_name)
                    /\ \A i \in 1..Len(argv) : rt.cmd_args[3 + i] = Lit(argv[i])
              /\ (pc = "exited" /\ ~rt.spawned) =>
                    /\ exit_code = 1
                    /\ \/ rt.tmp = "none"
                       \/ ~rt.extracted
                       \/ ~rt.target_exists
                       \/ rt.loader = NoPath
                       \/ rt.spawn_failed

\* the loader was spawned for a command line whose second word is a
\* reserved flag
C6_Witness ==
    /\ LocatorSome
    /\ tampered = "no"
    /\ rt.spawned
    /\ argv = <<"foo", "--rex-help">>
    /\ pc = "exited"

\* C7 as stated: when the child ends with exit code c, the bundle process
\* exits with exactly c and prints no diagnostic.
C7_Claim ==
    (LocatorSome /\ rt.spawned /\ rt.child_code >= 0 /\ pc = "exited") =>
        /\ exit_code = rt.child_code
        /\ stderr = <<>>

TargetMissing == rt.probed /\ ~rt.target_exists
LoaderMissing == rt.probed /\ rt.target_exists /\ rt.loader = NoPath
SpawnFailure == rt.spawn_failed

\* C8 as stated: LoaderMissing, TargetMissing and a failed spawn each end
\* the bundled run with a diagnostic on stderr and exit code 1.
C8_Claim ==
    (LocatorSome /\ pc = "exited"
        /\ (TargetMissing \/ LoaderMissing \/ SpawnFailure)) =>
        /\ exit_code = 1
        /\ stderr # <<>>

(***************************************************************************)
(* The generation                                                          *)
(***************************************************************************)
\* the resolver fails on a target that exists: a statically linked ELF
StaticTarget ==
    /\ mode = "generator"
    /\ gen.args.target_binary \in gen.env.exists
    /\ ~gen.env.ldd[gen.args.target_binary].ok

\* C9 as stated: for a target without dynamic dependencies generate_bundle
\* returns early: nothing is staged and no output file is created or
\* written.
C9_Claim ==
    StaticTarget =>
        /\ ~gen.written
        /\ gen.staging = "none"
        /\ pc \notin {"copy_exe", "append_payload", "write_name", "write_metadata",
                      "write_marker"}

\* C10 as stated: over the whole generation a library whose basename is in
\* libs/ already is skipped: what was copied first stays as it is, no
\* basename is there twice, and the generation does not fail because of the
\* collision.
C10_Claim ==
    [][(mode = "generator" /\ mode' = "generator") =>
          /\ \A x \in gen.libs : x \in gen'.libs
          /\ \A x, y \in gen'.libs : x.name = y.name => x = y
          /\ result' # Err(AlreadyExists("libs"))]_vars

(***************************************************************************)
(* The extraction directory and the order of extraction and spawn          *)
(***************************************************************************)
\* the bundled run has created its temporary extraction directory
TempDirCreated == LocatorSome /\ rt.tmp # "none"

\* run_bundled_binary has returned, or the process has ended
Returned == pc \in {"main_exit", "exited"}

\* C11: lifecycle of the extraction directory.  On every path of a bundled
\* run that created the temporary directory (extraction failure, target
\* missing, loader missing, spawn failure, child exit with any code) the
\* directory is removed when run_bundled_binary returns, so before main
\* computes the exit code; it is present only between its creation and that
\* return, and no process exit is reached with the directory still there.
C11_TempDirRemoved ==
    /\ rt.tmp = "present" =>
          LocatorSome /\ pc \in {"extract_tmp", "probe", "spawn", "wait"}
    /\ (TempDirCreated /\ Returned) => rt.tmp = "removed"
    /\ (LocatorSome /\ Returned /\ rt.extract_dest = "tmp") => rt.tmp = "removed"

\* the child ended with a non-zero code and the process has exited
C11_Witness ==
    /\ TempDirCreated
    /\ pc = "exited"
    /\ rt.spawned
    /\ rt.child_code = 2
    /\ rt.tmp = "removed"

\* C12: extraction precedes the spawn.  The loader is spawned, and its
\* command line is built, only in a run whose extraction into the temporary
\* directory has completed successfully; while the extraction is running
\* nothing has been spawned; and a run whose extraction failed returns
\* without ever spawning the loader.
C12_ExtractBeforeSpawn ==
    /\ (pc \in {"spawn", "wait"} \/ rt.spawned \/ rt.spawn_failed) =>
          rt.extracted /\ rt.extract_dest = "tmp" /\ rt.tmp # "none"
    /\ pc \in {"tempdir", "extract_tmp", "extract_cwd"} =>
          ~rt.spawned /\ ~rt.spawn_failed /\ ~rt.extracted
    /\ (rt.extract_dest # "none" /\ ~rt.extracted) =>
          /\ ~rt.spawned /\ ~rt.spawn_failed /\ rt.cmd_args = <<>>
          /\ Returned
          /\ result.kind # "ok"

\* the loader was spawned after an extraction that went through
C12_Witness ==
    /\ LocatorSome
    /\ pc = "wait"
    /\ rt.spawned
    /\ rt.extracted
    /\ rt.extract_dest = "tmp"

\* an extraction into the temporary directory failed and the run has ended
C12_FailedExtraction ==
    /\ LocatorSome
    /\ pc = "exited"
    /\ rt.extract_dest = "tmp"
    /\ ~rt.extracted
    /\ ~rt.spawned

====
